---- MODULE Spec2Model ----
(***************************************************************************)
(* Model of homelab-agent.py: the delivery loop _post_loop (sample, POST,  *)
(* exponential backoff, one-second interval sleep) racing against the      *)
(* signal handler _handle_shutdown, followed by the end of main.           *)
(*                                                                         *)
(* pc is the position of the main thread:                                  *)
(*   "while"      line 162, about to evaluate `while not _shutdown`        *)
(*   "collect"    line 163, about to call _collect_metrics()               *)
(*   "post"       line 165, session.post in flight                         *)
(*   "sleep_http" lines 173-174, time.sleep(backoff) after a non-2xx       *)
(*   "sleep_exc"  lines 177-178, time.sleep(backoff) after an exception    *)
(*   "for"        lines 181-182, head of the interval loop, index i        *)
(*   "sleep1"     line 184, time.sleep(1)                                  *)
(*   "returned"   line 194, _post_loop has returned                        *)
(*   "stopped"    main has printed the stopped message and ended           *)
(* A signal may be delivered at any position; time.sleep and session.post  *)
(* are resumed after the handler returns (PEP 475), so a sleep always      *)
(* lasts its full duration.                                                *)
(*                                                                         *)
(* log is the observable trace of the loop: one record per sample, send,   *)
(* completed sleep, and the first delivery of a signal.                    *)
(*                                                                         *)
(* A second specification, SpecMetrics, models one call of                 *)
(* _collect_metrics (with _running_process_names and the module-level      *)
(* SERVER_NAME and PROCESS_LIMIT) on inputs drawn from bounded sets. In    *)
(* Spec the snapshot is only a number and the sampler's variables rest.    *)
(***************************************************************************)
EXTENDS Integers, Sequences, FiniteSets, TLC

\* ---------------------------------------------------------------- bounds
MaxCycles == 8
MaxInterval == 3
MaxProcs == 2
MaxLimit == 2

\* ------------------------------------------------------ program constants
backoff_max == 60
SEND_TIMEOUT == 10

\* HTTP status codes the endpoint may answer with (both edges of 2xx).
Statuses == {199, 200, 299, 300, 503}
\* resp before the first response has been received (unbound local).
NoResponse == 0

VARIABLES POST_INTERVAL, shutdown, backoff, pc, i, payload, resp, log

\* The sampler: the environment it reads (os_env: the SERVER_NAME variable,
\* host: os.uname, proc_table: psutil.process_iter, raw: the counters read by
\* psutil and time), the module constants computed from it, and the locals of
\* _running_process_names and _collect_metrics.
VARIABLES os_env, host, proc_table, raw, SERVER_NAME, PROCESS_LIMIT,
          mpc, pidx, names, metrics

lvars == <<POST_INTERVAL, shutdown, backoff, pc, i, payload, resp, log>>

mvars == <<os_env, host, proc_table, raw, SERVER_NAME, PROCESS_LIMIT,
           mpc, pidx, names, metrics>>

vars == <<lvars, mvars>>

\* ---------------------------------------------------------------- helpers
Min(a, b) == IF a <= b THEN a ELSE b

\* Variant: every status from 200 up counts as a success.
IsSuccess_From200(status) == status >= 200

\* resp.status_code // 100 == 2
IsSuccess(status) == status \div 100 = 2

\* Variant: the cap is the next power of two.
NextBackoff_Cap64(b) == Min(b * 2, 64)

\* Variant: doubling without the cap.
NextBackoff_NoCap(b) == b * 2

\* backoff = min(backoff * 2.0, backoff_max)
NextBackoff(b) == Min(b * 2, backoff_max)

\* Variant: the interval loop never polls the flag.
ForContinues_NoBreak(idx, interval, sd) == idx < interval

\* Variant: the interval loop sleeps one step too few.
ForContinues_OffByOne(idx, interval, sd) == idx + 1 < interval /\ ~sd

\* The interval loop goes on to time.sleep(1): range(POST_INTERVAL) is not
\* exhausted and the `if _shutdown: break` is not taken.
ForContinues(idx, interval, sd) == idx < interval /\ ~sd

Event(e, n, at) == [ev |-> e, n |-> n, at |-> at]

\* ------------------------------------------------------------------- Init
\* ------------------------------------------------------------ the sampler
Max(a, b) == IF a >= b THEN a ELSE b

\* Variant: the percentage is capped at 100 but not floored at 0.
ClampPercent_NoFloor(x) == Min(x, 100)

\* max(0, min(x, 100))
ClampPercent(x) == Max(0, Min(x, 100))

\* max(0, x)
ClampCount(x) == Max(0, x)

\* os.getenv("SERVER_NAME", os.uname().nodename if hasattr(os, "uname")
\* else "unknown"): the variable when it is set, whatever its value.
ServerName(env, h) ==
    IF env.set THEN env.val
    ELSE IF h.uname THEN h.nodename ELSE "unknown"

\* name = proc.info.get("name") or (proc.info.get("cmdline") or
\* ["unknown"])[0]; if not name: name = "unknown". An absent name is "".
ProcName(p) ==
    IF p.name # ""
      THEN p.name
      ELSE LET cmdline == IF p.cmdline # <<>> THEN p.cmdline ELSE <<"unknown">>
           IN  IF cmdline[1] # "" THEN cmdline[1] ELSE "unknown"

\* json.dumps of a list of strings, as the sequence of its tokens.
Tok(t, str) == [t |-> t, s |-> str]

RECURSIVE JsonItems(_)
JsonItems(ns) ==
    IF ns = <<>> THEN <<>>
    ELSE IF Len(ns) = 1 THEN <<Tok("str", ns[1])>>
    ELSE <<Tok("str", ns[1]), Tok(",", "")>> \o JsonItems(Tail(ns))

JsonDumps(ns) == <<Tok("[", "")>> \o JsonItems(ns) \o <<Tok("]", "")>>

\* What psutil.process_iter may yield: a named process, a process with only
\* a command line, one whose first argument is empty, one with neither, and
\* one whose inspection raises NoSuchProcess or AccessDenied.
ProcEntries ==
    { [name |-> "sshd", cmdline |-> <<"/usr/sbin/sshd">>, gone |-> FALSE],
      [name |-> "", cmdline |-> <<"/sbin/init">>, gone |-> FALSE],
      [name |-> "", cmdline |-> <<"">>, gone |-> FALSE],
      [name |-> "", cmdline |-> <<>>, gone |-> FALSE],
      [name |-> "", cmdline |-> <<>>, gone |-> TRUE] }

ProcTables == UNION {[1..n -> ProcEntries] : n \in 0..MaxProcs}

\* The rounded readings and counters before clamping.
RawSamples ==
    [cpu : {-5, 0, 100, 150}, mem : {-5, 50, 150}, disk : {-1, 7},
     net_in : {-1, 5}, net_out : {-1, 5}, uptime : {-1, 9}]

\* The SERVER_NAME variable: unset, set to the empty string, set to a name.
EnvSettings ==
    { [set |-> FALSE, val |-> ""], [set |-> TRUE, val |-> ""],
      [set |-> TRUE, val |-> "proxmox-01"] }

Hosts ==
    { [uname |-> TRUE, nodename |-> "cluster-1-pi5"],
      [uname |-> FALSE, nodename |-> ""] }

\* metrics before _collect_metrics has returned.
NoMetrics == [status |-> "none"]

\* The sampler at rest, as in Spec: the module constants are set, no call of
\* _collect_metrics is modelled.
MetricsIdle ==
    /\ os_env = [set |-> FALSE, val |-> ""]
    /\ host = [uname |-> TRUE, nodename |-> "cluster-1-pi5"]
    /\ proc_table = <<>>
    /\ raw = [cpu |-> 0, mem |-> 50, disk |-> 7, net_in |-> 5, net_out |-> 5,
              uptime |-> 9]
    /\ SERVER_NAME = ServerName(os_env, host)
    /\ PROCESS_LIMIT = MaxLimit
    /\ mpc = "idle"
    /\ pidx = 0
    /\ names = <<>>
    /\ metrics = NoMetrics

\* The loop before its first iteration (lines 55, 61, 159).
LoopInit ==
    /\ shutdown = FALSE
    /\ backoff = 1
    /\ pc = "while"
    /\ i = 0
    /\ payload = 0
    /\ resp = NoResponse
    /\ log = <<>>

Init ==
    /\ POST_INTERVAL \in 0..MaxInterval
    /\ LoopInit
    /\ MetricsIdle

\* ---------------------------------------------------------------- actions
\* Variant: the handler toggles the flag instead of setting it.
handle_shutdown_Toggle ==
    /\ pc # "stopped"
    /\ shutdown' = ~shutdown
    /\ log' = IF shutdown THEN log ELSE Append(log, Event("signal", i, pc))
    /\ UNCHANGED <<POST_INTERVAL, backoff, pc, i, payload, resp>>
    /\ UNCHANGED mvars

\* _handle_shutdown: a SIGINT/SIGTERM/SIGHUP is delivered.
handle_shutdown ==
    /\ pc # "stopped"
    /\ shutdown' = TRUE
    /\ log' = IF shutdown THEN log ELSE Append(log, Event("signal", i, pc))
    /\ UNCHANGED <<POST_INTERVAL, backoff, pc, i, payload, resp>>
    /\ UNCHANGED mvars

\* Variant: the flag is not consulted at the top of the loop.
WhileStep_NoCheck ==
    /\ pc = "while"
    /\ payload < MaxCycles
    /\ pc' = "collect"
    /\ UNCHANGED <<POST_INTERVAL, shutdown, backoff, i, payload, resp, log>>
    /\ UNCHANGED mvars

\* Variant: the loop gives up once the backoff has reached its ceiling.
WhileStep_RetryLimit ==
    /\ pc = "while"
    /\ IF shutdown \/ backoff >= backoff_max
         THEN pc' = "returned"
         ELSE payload < MaxCycles /\ pc' = "collect"
    /\ UNCHANGED <<POST_INTERVAL, shutdown, backoff, i, payload, resp, log>>
    /\ UNCHANGED mvars

\* while not _shutdown:
WhileStep ==
    /\ pc = "while"
    /\ IF shutdown
         THEN pc' = "returned"
         ELSE payload < MaxCycles /\ pc' = "collect"
    /\ UNCHANGED <<POST_INTERVAL, shutdown, backoff, i, payload, resp, log>>
    /\ UNCHANGED mvars

\* payload = _collect_metrics(); payload is the number of the snapshot.
Collect ==
    /\ pc = "collect"
    /\ payload' = payload + 1
    /\ log' = Append(log, Event("sample", payload + 1, ""))
    /\ pc' = "post"
    /\ UNCHANGED <<POST_INTERVAL, shutdown, backoff, i, resp>>
    /\ UNCHANGED mvars

\* session.post returns a response.
PostResponse ==
    /\ pc = "post"
    /\ \E status \in Statuses :
         /\ resp' = status
         /\ IF IsSuccess(status)
              THEN /\ backoff' = 1
                   /\ log' = Append(log, Event("send_ok", payload, ""))
                   /\ pc' = "for"
                   /\ i' = 0
              ELSE /\ backoff' = backoff
                   /\ log' = Append(log, Event("send_fail", payload, ""))
                   /\ pc' = "sleep_http"
                   /\ i' = i
    /\ UNCHANGED <<POST_INTERVAL, shutdown, payload>>
    /\ UNCHANGED mvars

\* session.post raises requests.RequestException (no response).
PostException ==
    /\ pc = "post"
    /\ log' = Append(log, Event("send_fail", payload, ""))
    /\ pc' = "sleep_exc"
    /\ UNCHANGED <<POST_INTERVAL, shutdown, backoff, i, payload, resp>>
    /\ UNCHANGED mvars

\* Variant: the delay is doubled before the wait instead of after it.
HttpBackoff_DoubleFirst ==
    /\ pc = "sleep_http"
    /\ log' = Append(log, Event("backoff", NextBackoff(backoff), ""))
    /\ backoff' = NextBackoff(backoff)
    /\ pc' = "for"
    /\ i' = 0
    /\ UNCHANGED <<POST_INTERVAL, shutdown, payload, resp>>
    /\ UNCHANGED mvars

\* Variant: the backoff wait replaces the interval sleep.
HttpBackoff_SkipInterval ==
    /\ pc = "sleep_http"
    /\ log' = Append(log, Event("backoff", backoff, ""))
    /\ backoff' = NextBackoff(backoff)
    /\ pc' = "while"
    /\ i' = 0
    /\ UNCHANGED <<POST_INTERVAL, shutdown, payload, resp>>
    /\ UNCHANGED mvars

\* time.sleep(backoff); backoff = min(backoff * 2.0, backoff_max)
HttpBackoff ==
    /\ pc = "sleep_http"
    /\ log' = Append(log, Event("backoff", backoff, ""))
    /\ backoff' = NextBackoff(backoff)
    /\ pc' = "for"
    /\ i' = 0
    /\ UNCHANGED <<POST_INTERVAL, shutdown, payload, resp>>
    /\ UNCHANGED mvars

\* Variant: after the wait the same payload is posted again.
ExcBackoff_Retry ==
    /\ pc = "sleep_exc"
    /\ log' = Append(log, Event("backoff", backoff, ""))
    /\ backoff' = NextBackoff(backoff)
    /\ pc' = "post"
    /\ i' = i
    /\ UNCHANGED <<POST_INTERVAL, shutdown, payload, resp>>
    /\ UNCHANGED mvars

\* Variant: a transport failure waits but does not grow the delay.
ExcBackoff_NoDouble ==
    /\ pc = "sleep_exc"
    /\ log' = Append(log, Event("backoff", backoff, ""))
    /\ backoff' = backoff
    /\ pc' = "for"
    /\ i' = 0
    /\ UNCHANGED <<POST_INTERVAL, shutdown, payload, resp>>
    /\ UNCHANGED mvars

\* Variant: the delay is doubled before the wait instead of after it.
ExcBackoff_DoubleFirst ==
    /\ pc = "sleep_exc"
    /\ log' = Append(log, Event("backoff", NextBackoff(backoff), ""))
    /\ backoff' = NextBackoff(backoff)
    /\ pc' = "for"
    /\ i' = 0
    /\ UNCHANGED <<POST_INTERVAL, shutdown, payload, resp>>
    /\ UNCHANGED mvars

\* except requests.RequestException: time.sleep(backoff); backoff = min(...)
ExcBackoff ==
    /\ pc = "sleep_exc"
    /\ log' = Append(log, Event("backoff", backoff, ""))
    /\ backoff' = NextBackoff(backoff)
    /\ pc' = "for"
    /\ i' = 0
    /\ UNCHANGED <<POST_INTERVAL, shutdown, payload, resp>>
    /\ UNCHANGED mvars

\* Variant: the interval loop falls through to the next sample (the flag is
\* tested at the bottom of the cycle only by the interval loop).
ForStep_SkipCheck ==
    /\ pc = "for"
    /\ pc' = IF ForContinues(i, POST_INTERVAL, shutdown) THEN "sleep1" ELSE "collect"
    /\ payload < MaxCycles
    /\ UNCHANGED <<POST_INTERVAL, shutdown, backoff, i, payload, resp, log>>
    /\ UNCHANGED mvars

\* Variant: `continue` instead of `break` in a loop that does not advance.
ForStep_Spin ==
    /\ pc = "for"
    /\ pc' = IF i < POST_INTERVAL
               THEN (IF shutdown THEN "for" ELSE "sleep1")
               ELSE "while"
    /\ UNCHANGED <<POST_INTERVAL, shutdown, backoff, i, payload, resp, log>>
    /\ UNCHANGED mvars

\* for _ in range(POST_INTERVAL): if _shutdown: break
ForStep ==
    /\ pc = "for"
    /\ pc' = IF ForContinues(i, POST_INTERVAL, shutdown) THEN "sleep1" ELSE "while"
    /\ UNCHANGED <<POST_INTERVAL, shutdown, backoff, i, payload, resp, log>>
    /\ UNCHANGED mvars

\* time.sleep(1)
Sleep1 ==
    /\ pc = "sleep1"
    /\ log' = Append(log, Event("sleep", 1, ""))
    /\ i' = i + 1
    /\ pc' = "for"
    /\ UNCHANGED <<POST_INTERVAL, shutdown, backoff, payload, resp>>
    /\ UNCHANGED mvars

\* main: print("[homelab-agent] stopped.") and end.
Stop ==
    /\ pc = "returned"
    /\ pc' = "stopped"
    /\ UNCHANGED <<POST_INTERVAL, shutdown, backoff, i, payload, resp, log>>
    /\ UNCHANGED mvars

Next ==
    \/ handle_shutdown
    \/ WhileStep
    \/ Collect
    \/ PostResponse
    \/ PostException
    \/ HttpBackoff
    \/ ExcBackoff
    \/ ForStep
    \/ Sleep1
    \/ Stop

Spec == Init /\ [][Next]_vars

\* ------------------------------------------------ one call of the sampler
\* The module is imported (lines 54, 56) and _collect_metrics has read the
\* counters (lines 117-133) and entered _running_process_names(PROCESS_LIMIT).
MetricsInit ==
    /\ POST_INTERVAL = 0
    /\ LoopInit
    /\ os_env \in EnvSettings
    /\ host \in Hosts
    /\ proc_table \in ProcTables
    /\ raw \in RawSamples
    /\ SERVER_NAME = ServerName(os_env, host)
    /\ PROCESS_LIMIT \in 0..MaxLimit
    /\ mpc = "procs"
    /\ pidx = 1
    /\ names = <<>>
    /\ metrics = NoMetrics

\* One iteration of `for proc in psutil.process_iter(...)`: an exception
\* skips the process; otherwise its name is appended and the loop breaks when
\* len(names) >= limit.
ProcessIterStep ==
    /\ mpc = "procs"
    /\ pidx <= Len(proc_table)
    /\ IF proc_table[pidx].gone
         THEN /\ names' = names
              /\ pidx' = pidx + 1
              /\ mpc' = mpc
         ELSE /\ names' = Append(names, ProcName(proc_table[pidx]))
              /\ IF Len(names') >= PROCESS_LIMIT
                   THEN mpc' = "build" /\ pidx' = pidx
                   ELSE mpc' = mpc /\ pidx' = pidx + 1
    /\ UNCHANGED <<os_env, host, proc_table, raw, SERVER_NAME, PROCESS_LIMIT, metrics>>
    /\ UNCHANGED lvars

\* The iterator is exhausted: return names.
ProcessIterEnd ==
    /\ mpc = "procs"
    /\ pidx > Len(proc_table)
    /\ mpc' = "build"
    /\ UNCHANGED <<os_env, host, proc_table, raw, SERVER_NAME, PROCESS_LIMIT,
                   pidx, names, metrics>>
    /\ UNCHANGED lvars

\* running_processes_json = json.dumps(procs); payload = {...}; return payload
BuildPayload ==
    /\ mpc = "build"
    /\ metrics' =
         [server_name |-> SERVER_NAME,
          cpu_usage |-> ClampPercent(raw.cpu),
          memory_usage |-> ClampPercent(raw.mem),
          disk_space_used |-> ClampCount(raw.disk),
          network_traffic_in |-> ClampCount(raw.net_in),
          network_traffic_out |-> ClampCount(raw.net_out),
          uptime |-> ClampCount(raw.uptime),
          status |-> "running",
          running_processes |-> JsonDumps(names)]
    /\ mpc' = "done"
    /\ UNCHANGED <<os_env, host, proc_table, raw, SERVER_NAME, PROCESS_LIMIT,
                   pidx, names>>
    /\ UNCHANGED lvars

MetricsNext ==
    \/ ProcessIterStep
    \/ ProcessIterEnd
    \/ BuildPayload

SpecMetrics == MetricsInit /\ [][MetricsNext]_vars

TypeOK ==
    /\ POST_INTERVAL \in 0..MaxInterval
    /\ shutdown \in BOOLEAN
    /\ backoff \in 1..backoff_max
    /\ pc \in {"while", "collect", "post", "sleep_http", "sleep_exc",
               "for", "sleep1", "returned", "stopped"}
    /\ i \in 0..MaxInterval
    /\ payload \in 0..MaxCycles
    /\ resp \in Statuses \cup {NoResponse}

\* ------------------------------------------------- observations on the log
IsSend(e) == e.ev \in {"send_ok", "send_fail"}

\* The outcomes of the sends so far, oldest first.
Sends == SelectSeq(log, IsSend)

RECURSIVE TrailingFailures(_)
TrailingFailures(s) ==
    IF s = <<>> \/ s[Len(s)].ev # "send_fail"
      THEN 0
      ELSE 1 + TrailingFailures(SubSeq(s, 1, Len(s) - 1))

\* Number of failed deliveries since the last success (or since the start).
ConsecFailures == TrailingFailures(Sends)

\* Position in the log of the signal that set the flag, 0 when there is none.
SigPos ==
    IF \E k \in DOMAIN log : log[k].ev = "signal"
      THEN CHOOSE k \in DOMAIN log : log[k].ev = "signal"
      ELSE 0

Signalled == SigPos > 0

\* Position of the loop when the flag was set.
SigAt == IF Signalled THEN log[SigPos].at ELSE "none"

\* Events of the log after the flag was set.
AfterSignal == IF Signalled THEN SubSeq(log, SigPos + 1, Len(log)) ELSE <<>>

IsSleep(e) == e.ev = "sleep"
IsWork(e) == e.ev \in {"sample", "send_ok", "send_fail"}

IsPrefix(s, t) ==
    /\ Len(s) <= Len(t)
    /\ \A k \in 1..Len(s) : s[k] = t[k]

BackoffWaits == {"sleep_http", "sleep_exc"}

\* ---------------------------------------------------------------- claims

\* C1: after N consecutive failed deliveries, each one fully handled (its
\* backoff wait over), the backoff delay equals min(2^N, 60): 1, 2, 4, 8, 16,
\* 32, then 60 for good.
C1_BackoffAfterFailures ==
    pc \notin BackoffWaits => backoff = Min(2 ^ ConsecFailures, 60)

\* C1 witness: after 8 failures in a row the delay is still 60.
C1_Witness ==
    pc = "for" /\ ConsecFailures >= 8 /\ backoff = 60

\* C2: a response with a status in 200..299 leaves the backoff delay at 1
\* whatever it was; a response with any other status leaves it as it was and
\* enters the failure handling; and the delay never decreases at any other
\* step.
C2_SuccessResetsBackoff ==
    [][ /\ (pc = "post" /\ pc' \in {"for", "sleep_http"}) =>
             /\ resp' \in 200..299 => (backoff' = 1 /\ pc' = "for")
             /\ resp' \notin 200..299 => (backoff' = backoff /\ pc' = "sleep_http")
        /\ backoff' < backoff =>
             (pc = "post" /\ pc' = "for" /\ resp' \in 200..299) ]_vars

\* C2 witness: a 2xx response has just arrived after a failure handled with
\* the delay at its ceiling, and the delay is 1.
C2_Witness ==
    /\ pc = "for" /\ i = 0 /\ resp \in 200..299 /\ backoff = 1
    /\ Len(log) >= 4
    /\ log[Len(log)].ev = "send_ok"
    /\ \E k \in DOMAIN log :
         /\ log[k].ev = "backoff" /\ log[k].n = 60
         /\ \A m \in (k + 1)..(Len(log) - 1) : ~IsSend(log[m])

\* C3: when the flag is set during the post-interval sleep, the loop performs
\* at most one more one-second sleep and nothing else (no sample, no send, no
\* backoff wait), and heads for the exit.
C3_ShutdownDuringIntervalSleep ==
    SigAt \in {"for", "sleep1"} =>
        /\ Len(AfterSignal) <= 1
        /\ \A k \in DOMAIN AfterSignal : IsSleep(AfterSignal[k])
        /\ pc \in {"for", "sleep1", "while", "returned", "stopped"}

\* C3 witness: the flag was set during the first of three sleep steps and the
\* loop has returned after that single step.
C3_Witness ==
    /\ pc = "returned"
    /\ SigAt = "sleep1" /\ log[SigPos].n = 0
    /\ POST_INTERVAL >= 3
    /\ Len(AfterSignal) = 1

\* C4: when the flag is set before the top-of-loop check of a cycle (at the
\* check itself, or anywhere after the previous send), no sample is taken
\* and no send is made from then on.
C4_ShutdownBeforeCycle ==
    SigAt \in {"while", "for", "sleep1", "sleep_http", "sleep_exc"} =>
        /\ \A k \in DOMAIN AfterSignal : ~IsWork(AfterSignal[k])
        /\ pc \notin {"collect", "post"}

\* C4 witness: the flag was set at the top-of-loop check after at least one
\* cycle, and the loop has returned.
C4_Witness ==
    pc = "returned" /\ SigAt = "while" /\ payload >= 1

\* C5 (as claimed): the loop starts neither a new cycle nor a backoff wait
\* while the flag is already set.
C5_PollsBeforeCycleAndRetryWait ==
    /\ ~(pc = "collect" /\ Signalled /\ SigAt # "collect")
    /\ ~(pc \in BackoffWaits /\ Signalled /\ SigAt \notin BackoffWaits)

\* Seconds an event may take: a sleep its duration, a send up to the timeout.
Cost(e) ==
    CASE e.ev \in {"sleep", "backoff"} -> e.n
      [] IsSend(e) -> SEND_TIMEOUT
      [] OTHER -> 0

RECURSIVE TotalCost(_)
TotalCost(s) == IF s = <<>> THEN 0 ELSE Cost(s[1]) + TotalCost(Tail(s))

\* Upper bound on the seconds spent in sleeps and sends since the flag was set.
Latency == TotalCost(AfterSignal)

\* C6 (as claimed): once the flag is set the loop spends at most 1 second
\* before returning, or at most the 10-second send timeout when the signal
\* arrived with a send in flight or about to start.
C6_BoundedShutdownLatency ==
    Signalled =>
        Latency <= (IF SigAt \in {"collect", "post"} THEN SEND_TIMEOUT ELSE 1)

\* The end-to-end scenario: interval 1, outcomes success, success, failure,
\* success, no signal. Trace(d) is the trace in which the wait after the
\* failure of cycle 3 lasts d seconds.
ScenarioOutcomes == <<"send_ok", "send_ok", "send_fail", "send_ok">>

Trace(d) ==
    << Event("sample", 1, ""), Event("send_ok", 1, ""), Event("sleep", 1, ""),
       Event("sample", 2, ""), Event("send_ok", 2, ""), Event("sleep", 1, ""),
       Event("sample", 3, ""), Event("send_fail", 3, ""),
       Event("backoff", d, ""), Event("sleep", 1, ""),
       Event("sample", 4, ""), Event("send_ok", 4, "") >>

InScenario ==
    /\ POST_INTERVAL = 1
    /\ ~shutdown
    /\ Len(Sends) <= Len(ScenarioOutcomes)
    /\ \A k \in DOMAIN Sends : Sends[k].ev = ScenarioOutcomes[k]

\* The delay after cycles 1 and 2 is 1, after the failure handling of cycle 3
\* it is 2, after the success of cycle 4 it is 1 again.
ScenarioDelays ==
    /\ Len(log) \in {2, 3, 4, 5, 6, 7} => backoff = 1
    /\ Len(log) \in {9, 10, 11} => backoff = 2
    /\ Len(log) = 12 => backoff = 1

\* C7 (as claimed): in the scenario the loop waits 2 seconds after the failure
\* of cycle 3, then the 1-second interval.
C7_TraceAsClaimed ==
    InScenario =>
        /\ IsPrefix(log, Trace(2)) \/ IsPrefix(Trace(2), log)
        /\ ScenarioDelays

\* C7 (amended): in the scenario the loop waits 1 second after the failure of
\* cycle 3 (the delay it held before the failure), the delay becomes 2 only
\* after that wait, then the 1-second interval follows; cycle 4 resets the
\* delay to 1.
C7_TraceAmended ==
    InScenario =>
        /\ IsPrefix(log, Trace(1)) \/ IsPrefix(Trace(1), log)
        /\ ScenarioDelays
        /\ Len(log) = 8 => backoff = 1

\* C7 witness: the scenario has run to the success of cycle 4.
C7_Witness ==
    InScenario /\ log = Trace(1) /\ backoff = 1 /\ resp = 200 /\ pc = "for"

\* Positions in the first k events of the log of the samples, in order.
RECURSIVE SamplePositions(_)
SamplePositions(k) ==
    IF k = 0 THEN <<>>
    ELSE IF log[k].ev = "sample" THEN Append(SamplePositions(k - 1), k)
    ELSE SamplePositions(k - 1)

\* Cycles that ran to the next sample with the flag unset throughout:
\* <<p, q>> where p and q are the positions of consecutive samples and no
\* signal was delivered before q.
FullCycles ==
    LET P == SamplePositions(Len(log))
        limit == IF Signalled THEN SigPos ELSE Len(log) + 1
    IN  {<<P[j], P[j + 1]>> : j \in {m \in 1..(Len(P) - 1) : P[m + 1] < limit}}

\* C8: a cycle whose delivery failed consists of the sample, the send, one
\* backoff wait of at least a second, and then POST_INTERVAL one-second
\* sleeps, in that order, before the next sample.
C8_BackoffThenInterval ==
    \A c \in FullCycles :
        log[c[1] + 1].ev = "send_fail" =>
            /\ c[2] - c[1] = 3 + POST_INTERVAL
            /\ log[c[1] + 2].ev = "backoff" /\ log[c[1] + 2].n >= 1
            /\ \A m \in (c[1] + 3)..(c[2] - 1) : IsSleep(log[m])

\* C8 witness: a failed cycle with a 2-second backoff wait followed by a
\* 3-step interval sleep.
C8_Witness ==
    \E c \in FullCycles :
        /\ log[c[1] + 1].ev = "send_fail"
        /\ log[c[1] + 2].ev = "backoff" /\ log[c[1] + 2].n = 2
        /\ POST_INTERVAL >= 3
        /\ c[2] - c[1] = 3 + POST_INTERVAL

\* C9: a cycle whose delivery succeeded consists of the sample, the send and
\* exactly POST_INTERVAL one-second sleeps before the next sample, with no
\* backoff wait.
C9_SuccessFullInterval ==
    \A c \in FullCycles :
        log[c[1] + 1].ev = "send_ok" =>
            /\ c[2] - c[1] = 2 + POST_INTERVAL
            /\ \A m \in (c[1] + 2)..(c[2] - 1) :
                 IsSleep(log[m]) /\ log[m].n = 1

\* C9 witness: a successful cycle followed by a 3-step interval sleep.
C9_Witness ==
    \E c \in FullCycles :
        /\ log[c[1] + 1].ev = "send_ok"
        /\ POST_INTERVAL >= 3
        /\ c[2] - c[1] = 2 + POST_INTERVAL

\* C10: the loop returns, and the process ends, only with the flag set and
\* only at the top-of-loop check; with the flag unset the check always leads
\* to another cycle, whatever the delivery outcomes were.
C10_OnlyShutdownEndsLoop ==
    [][ /\ pc' \in {"returned", "stopped"} => shutdown
        /\ (pc' = "returned" /\ pc # "returned") => pc = "while"
        /\ (pc = "while" /\ ~shutdown /\ pc' # pc) => pc' = "collect" ]_vars

\* C10 witness: after seven failed deliveries in a row the flag is unset and
\* the loop is starting its eighth cycle.
C10_Witness ==
    ~shutdown /\ pc = "collect" /\ payload >= 7 /\ ConsecFailures >= 7

\* C13: the flag starts false; a step that changes it sets it, changes
\* nothing else of the loop and is the delivery of a signal; once true it
\* stays true.
C13_ShutdownTerminal ==
    /\ shutdown = FALSE
    /\ [][ /\ shutdown => shutdown'
           /\ shutdown' # shutdown =>
                /\ log' = Append(log, Event("signal", i, pc))
                /\ UNCHANGED <<POST_INTERVAL, backoff, pc, i, payload, resp>>
           /\ pc' # pc => shutdown' = shutdown ]_vars

\* C13 witness: the flag was set during a send, the loop has gone through the
\* backoff wait, returned and ended, and the flag is still set.
C13_Witness ==
    /\ shutdown /\ pc = "stopped"
    /\ SigAt = "post"
    /\ \E k \in DOMAIN AfterSignal : AfterSignal[k].ev = "backoff"

SendPos == {k \in DOMAIN log : IsSend(log[k])}

\* The samples taken so far, oldest first.
Samples == SelectSeq(log, LAMBDA e : e.ev = "sample")

\* C14: every send carries the snapshot of the sample taken just before it
\* (nothing but the delivery of a signal lies between the two), the k-th
\* sample produces snapshot k and the k-th send carries snapshot k, so no
\* snapshot is sampled or sent twice, and at any time at most one sample has
\* not yet been sent.
C14_FreshSampleEverySend ==
    /\ \A k \in SendPos :
         \/ k > 1 /\ log[k - 1] = Event("sample", log[k].n, "")
         \/ k > 2 /\ log[k - 1].ev = "signal"
                  /\ log[k - 2] = Event("sample", log[k].n, "")
    /\ \A k \in DOMAIN Samples : Samples[k].n = k
    /\ \A k \in DOMAIN Sends : Sends[k].n = k
    /\ Len(Samples) - Len(Sends) \in {0, 1}
    /\ Len(Samples) = Len(Sends) + 1 <=> pc = "post"

\* C14 witness: snapshot 1 failed, snapshot 2 failed, snapshot 3 was sent.
C14_Witness ==
    /\ Len(Sends) = 3
    /\ Sends[1] = Event("send_fail", 1, "")
    /\ Sends[2] = Event("send_fail", 2, "")
    /\ Sends[3] = Event("send_ok", 3, "")

\* C17: the backoff wait of the k-th consecutive failure lasts
\* min(2^(k-1), 60) seconds, the value held before the failure, and the delay
\* is doubled (cap 60) only when that wait is over.
C17_WaitThenDouble ==
    [][ (pc \in BackoffWaits /\ pc' \notin BackoffWaits) =>
            /\ ConsecFailures >= 1
            /\ log' = Append(log, Event("backoff", Min(2 ^ (ConsecFailures - 1), 60), ""))
            /\ backoff = Min(2 ^ (ConsecFailures - 1), 60)
            /\ backoff' = Min(2 ^ ConsecFailures, 60) ]_vars

\* C17 witness: the sixth failure in a row has just waited 32 seconds, and the
\* log also holds a first failure that waited 1 second.
C17_Witness ==
    /\ pc = "for" /\ i = 0 /\ ConsecFailures = 6
    /\ log[Len(log)] = Event("backoff", 32, "")
    /\ \E k \in DOMAIN log : log[k] = Event("backoff", 1, "")

\* C18: an HTTP failure and a transport failure make the same transition: the
\* send leaves the delay as it is and records the failure, the wait that
\* follows lasts the current delay, doubles it (cap 60) and enters the
\* interval loop at index 0, whichever of the two branches is taken.
C18_SameFailureTransition ==
    [][ /\ (pc = "post" /\ pc' \in BackoffWaits) =>
             /\ log' = Append(log, Event("send_fail", payload, ""))
             /\ UNCHANGED <<POST_INTERVAL, shutdown, backoff, payload>>
        /\ (pc \in BackoffWaits /\ pc' # pc) =>
             /\ log' = Append(log, Event("backoff", backoff, ""))
             /\ backoff' = Min(backoff * 2, 60)
             /\ pc' = "for" /\ i' = 0
             /\ UNCHANGED <<POST_INTERVAL, shutdown, payload>> ]_vars

\* C18 witness: a transport failure right after an HTTP failure (the response
\* of the previous cycle was a non-2xx), waiting with the delay grown to 2.
C18_Witness ==
    /\ pc = "sleep_exc"
    /\ resp \in Statuses /\ resp \notin 200..299
    /\ ConsecFailures = 2 /\ backoff = 2

BackoffValues == {1, 2, 4, 8, 16, 32, 60}

\* C19: the delay is always one of 1, 2, 4, 8, 16, 32, 60, and only the
\* handling of a delivery outcome (the send, or the end of a backoff wait)
\* changes it: the signal handler, the one-second sleeps and the loop checks
\* leave it unchanged.
C19_BackoffRange ==
    [][ /\ backoff \in BackoffValues /\ backoff' \in BackoffValues
        /\ backoff' # backoff => (pc \in {"post"} \cup BackoffWaits /\ pc' # pc)
        /\ shutdown' # shutdown => backoff' = backoff ]_vars

\* C19 witness: the flag was set while the delay was at its ceiling and the
\* loop has slept and returned with the delay still 60.
C19_Witness ==
    /\ pc = "returned" /\ backoff = 60
    /\ SigAt = "sleep1"

\* C20: after the flag is set at most one send completes and at most one is
\* started (a send starts with its sample); one is started only when the
\* signal arrived between the top-of-loop check and the sample, one completes
\* only when the signal arrived after that check, and that send is carried
\* out, not suppressed.
C20_AtMostOneSendAfterFlag ==
    LET after == AfterSignal
        at == SigAt
        sends == {k \in DOMAIN after : IsSend(after[k])}
        samples == {k \in DOMAIN after : after[k].ev = "sample"}
    IN  /\ Cardinality(sends) <= 1
        /\ Cardinality(samples) <= 1
        /\ samples # {} => at = "collect"
        /\ sends # {} => at \in {"collect", "post"}
        /\ (at \in {"collect", "post"} /\ pc \in {"returned", "stopped"}) =>
               sends # {}
        /\ (at = "collect" /\ pc \notin {"collect"}) => samples # {}

\* C20 witness: the signal arrived after the check and before the sample; the
\* cycle sampled and sent once more and the loop returned.
C20_Witness ==
    /\ pc = "returned" /\ SigAt = "collect" /\ payload >= 2
    /\ \E k \in DOMAIN AfterSignal : IsSend(AfterSignal[k])

\* The steps of the main thread. Every sleep and every send ends (the send
\* after at most its timeout), and the interpreter keeps running the thread,
\* so the thread is never stopped for ever at an enabled step; the delivery of
\* signals is not subject to any fairness.
LoopStep ==
    \/ WhileStep
    \/ Collect
    \/ PostResponse
    \/ PostException
    \/ HttpBackoff
    \/ ExcBackoff
    \/ ForStep
    \/ Sleep1
    \/ Stop

FairSpec == Spec /\ WF_vars(LoopStep)

\* C16: once the flag is set, _post_loop eventually returns and main prints
\* the stopped message and ends, from every position of the loop.
C16_EventuallyStops == shutdown ~> (pc = "stopped")

\* C16 witness: the flag was set while a send was in flight, the send failed,
\* the loop went through the backoff wait, and main has ended.
C16_Witness ==
    /\ pc = "stopped" /\ shutdown
    /\ SigAt = "post" /\ log[SigPos].n = 0
    /\ Len(AfterSignal) = 2
    /\ AfterSignal[1].ev = "send_fail" /\ AfterSignal[2].ev = "backoff"
    /\ backoff = 60

\* ------------------------------------------------- claims on the sampler

\* The list a JSON text of strings decodes to.
JsonLoads(ts) ==
    LET inner == SubSeq(ts, 2, Len(ts) - 1)
    IN  [k \in 1..((Len(inner) + 1) \div 2) |-> inner[2 * k - 1].s]

\* C11 (as claimed): the list returned by _running_process_names, and the list
\* the payload's running_processes decodes to, have at most PROCESS_LIMIT
\* entries, for every PROCESS_LIMIT from 0 up.
C11_ProcessListWithinLimit ==
    /\ mpc \in {"build", "done"} => Len(names) <= PROCESS_LIMIT
    /\ mpc = "done" => Len(JsonLoads(metrics.running_processes)) <= PROCESS_LIMIT

Clamped(x, lo, hi) == IF x < lo THEN lo ELSE IF x > hi THEN hi ELSE x

NonNegative(x) == IF x < 0 THEN 0 ELSE x

\* C12: in the payload, cpu_usage and memory_usage are the raw values brought
\* into [0, 100], the four counters are the raw values with negatives
\* replaced by 0, and status is "running".
C12_PayloadClamped ==
    mpc = "done" =>
        /\ metrics.cpu_usage = Clamped(raw.cpu, 0, 100)
        /\ metrics.memory_usage = Clamped(raw.mem, 0, 100)
        /\ metrics.cpu_usage \in 0..100 /\ metrics.memory_usage \in 0..100
        /\ metrics.disk_space_used = NonNegative(raw.disk)
        /\ metrics.network_traffic_in = NonNegative(raw.net_in)
        /\ metrics.network_traffic_out = NonNegative(raw.net_out)
        /\ metrics.uptime = NonNegative(raw.uptime)
        /\ metrics.status = "running"

\* C12 witness: a payload built from cpu 150, memory -5 and negative counters.
C12_Witness ==
    /\ mpc = "done"
    /\ raw.cpu = 150 /\ metrics.cpu_usage = 100
    /\ raw.mem = -5 /\ metrics.memory_usage = 0
    /\ raw.disk = -1 /\ raw.net_in = -1 /\ raw.net_out = -1 /\ raw.uptime = -1
    /\ metrics.uptime = 0

\* C15 (as claimed): server_name is never empty, whether SERVER_NAME is unset,
\* set to a name or set to the empty string, and it is the hostname when the
\* variable is unset and os.uname is available.
C15_ServerNameNeverEmpty ==
    /\ mpc = "done" => metrics.server_name # ""
    /\ (~os_env.set /\ host.uname /\ mpc = "done") =>
           metrics.server_name = host.nodename
====
